---- MODULE Spec2Model ----
(***************************************************************************)
(* Model of brewblox_service/events.py: the EventListener reconnect loop,  *)
(* the EventPublisher lazy connection and the EventLogHandler drain loop.  *)
(*                                                                         *)
(* The code targets Python 3.6 (f-strings, Queue(loop=...), CancelledError *)
(* and TimeoutError imported from concurrent.futures).  There              *)
(* asyncio.CancelledError is concurrent.futures.CancelledError, a subclass *)
(* of Exception: `except Exception` catches a cancellation, and a clause   *)
(* `except CancelledError` placed before it wins.                          *)
(*                                                                         *)
(* A coroutine is modelled by its position (pc) at a suspension point: one *)
(* action is the resumption from one await up to the next await.           *)
(***************************************************************************)
EXTENDS Naturals, Sequences, FiniteSets

\* Number of subscribe() calls explored.
MaxSubs == 3

\* Number of log records enqueued.
MaxRecords == 3

\* The count of orphaned connections saturates here.
MaxOrphans == 2

\* Number of emit() calls explored that drop their record.
MaxDropped == 2

\* maxsize of the queue made by asyncio.Queue(loop=app.loop) (463): the
\* default, 0, which asyncio reads as "no limit".
QueueMaxsize == 0

\* The callers of EventPublisher.publish: a direct caller (the REST endpoint
\* of 540, a service) and the EventLogHandler._run task (479).
Callers == {"api", "log"}

SubIds == 1..MaxSubs

VARIABLES
    \* ---- EventListener fields (events.py 159-168) ----
    started,            \* self._pending is not None (startup() has run)
    pending_pre_async,  \* self._pending_pre_async
    pending,            \* self._pending, the asyncio.Queue, as a sequence
    subscriptions,      \* self._subscriptions
    task,               \* self._task: "None" (or a task that is done) or "running"
    live_tasks,         \* number of _listen tasks created and not yet done
    \* ---- callers of the listener ----
    created,            \* number of subscribe() calls made so far
    shutting,           \* shutdown() is suspended in scheduler.cancel_task
    cancel_pending,     \* task.cancel() was called, CancelledError not yet thrown
    cancel_seen,        \* CancelledError was thrown into the current task
    \* ---- locals of EventListener._listen (events.py 190-252) ----
    pc,                 \* the await the task is suspended at
    retrying,           \* local `retrying`
    subscription,       \* local `subscription` (0 is None)
    protocol,           \* state of the session local `protocol` is bound to
    transport,          \* state of the transport local `transport` is bound to
    after,              \* how the finally clause was entered
    replay_idx,         \* position of the comprehension of line 206
    declared,           \* declare_on_remote calls that succeeded on `channel`:
                        \* <<subscription, "replay" (206) or "drain" (226)>>
    leaked,             \* an open transport lost its last reference unclosed
    outage_warnings,    \* warnings logged at 241 since an open-check last
                        \* succeeded (or since the task started)
    check_timed_out,    \* the open-check of 212 timed out on the current session
    \* ---- the broker ----
    stable,             \* from now on the broker accepts everything
    \* ---- EventSubscription._relay (events.py 132-141) ----
    relay_error_sub,    \* subscription of the latest error logged at 141 (0: none)
    relay_ok_sub,       \* subscription whose callback returned since then (0: none)
    relay_raised,       \* an exception escaped _relay
    \* ---- EventPublisher fields (events.py 355-358) ----
    pub_session,        \* the connection self._transport and self._protocol are
                        \* bound to: "None", "open" or "lost"
    pub_channel,        \* self._channel is not None
    pub_orphans,        \* open connections the publisher no longer refers to
    \* ---- one publish() call per caller (events.py 430-450) ----
    pub_pc,             \* the await the call is suspended at ("idle": no call)
    pub_attempt,        \* which _ensure_channel call of 431/435 is running
    pub_fail1,          \* where the first _ensure_channel call failed
    pub_sent,           \* basic_publish of this call went out
    pub_out,            \* how the latest call ended
    \* ---- EventLogHandler (events.py 459-504) ----
    log_started,        \* self._queue is not None
    log_queue,          \* self._queue
    log_pc,             \* position of the _run task
    log_record,         \* local `record` of _run (0 is None)
    log_emitted,        \* number of records enqueued so far; record ids
    log_published,      \* records published by _run, in order
    log_retried,        \* the publish of log_record was started after a sleep
    log_dropped,        \* number of emit() calls that dropped their record
    emit_raised,        \* an exception escaped emit
    log_shutting,       \* shutdown() is suspended in scheduler.cancel_task
    log_cancel_pending, \* task.cancel() was called, CancelledError not yet thrown
    log_cancel_seen     \* CancelledError was thrown into the _run task

listenerVars == <<started, pending_pre_async, pending, subscriptions, task, live_tasks>>
callerVars == <<created, shutting, cancel_pending, cancel_seen>>
obsVars == <<outage_warnings, check_timed_out>>
loopVars == <<pc, retrying, subscription, protocol, transport, after, replay_idx, declared,
              leaked, obsVars>>
relayVars == <<relay_error_sub, relay_ok_sub, relay_raised>>
pubVars == <<pub_session, pub_channel, pub_orphans, pub_pc, pub_attempt, pub_fail1,
             pub_sent, pub_out>>
logVars == <<log_started, log_queue, log_pc, log_record, log_emitted, log_published,
             log_retried, log_dropped, emit_raised, log_shutting, log_cancel_pending,
             log_cancel_seen>>
pubSide == <<pubVars, logVars>>
listenerSide == <<listenerVars, callerVars, loopVars, relayVars>>
vars == <<listenerVars, callerVars, loopVars, stable, relayVars, pubSide>>

Range(s) == {s[i] : i \in 1..Len(s)}

\* The subscriptions with a consumer on the current channel.
DeclaredSubs == {declared[i][1] : i \in 1..Len(declared)}

\* EventListener.__init__
ListenerInit ==
    /\ started = FALSE
    /\ pending_pre_async = <<>>
    /\ pending = <<>>
    /\ subscriptions = <<>>
    /\ task = "None"
    /\ live_tasks = 0
    /\ created = 0
    /\ shutting = FALSE
    /\ cancel_pending = FALSE
    /\ cancel_seen = FALSE
    /\ pc = "done"
    /\ retrying = FALSE
    /\ subscription = 0
    /\ protocol = "unbound"
    /\ transport = "unbound"
    /\ after = "none"
    /\ replay_idx = 0
    /\ declared = <<>>
    /\ leaked = FALSE
    /\ outage_warnings = 0
    /\ check_timed_out = FALSE
    /\ stable = FALSE
    /\ relay_error_sub = 0
    /\ relay_ok_sub = 0
    /\ relay_raised = FALSE

\* EventPublisher.__init__ (342-346) and EventLogHandler.__init__ (455-460)
PublisherInit ==
    /\ pub_session = "None"
    /\ pub_channel = FALSE
    /\ pub_orphans = 0
    /\ pub_pc = [c \in Callers |-> "idle"]
    /\ pub_attempt = [c \in Callers |-> 0]
    /\ pub_fail1 = [c \in Callers |-> "none"]
    /\ pub_sent = [c \in Callers |-> FALSE]
    /\ pub_out = [c \in Callers |-> "none"]
    /\ log_started = FALSE
    /\ log_queue = <<>>
    /\ log_pc = "off"
    /\ log_record = 0
    /\ log_emitted = 0
    /\ log_published = <<>>
    /\ log_retried = FALSE
    /\ log_dropped = 0
    /\ emit_raised = FALSE
    /\ log_shutting = FALSE
    /\ log_cancel_pending = FALSE
    /\ log_cancel_seen = FALSE

(***************************************************************************)
(* EventListener                                                           *)
(***************************************************************************)

\* The pcs inside the try of lines 194-233.
TryPcs == {"connect", "channel", "replay", "ensure_open", "get", "ensure_open2", "declare"}

\* The pcs at which local `subscription` holds a dequeued subscription.
HoldingPcs == {"ensure_open2", "declare"}

\* The task is suspended at p and no cancellation is waiting for it: the
\* next step of a task on which cancel() was called is the CancelledError.
At(p) == task = "running" /\ pc = p /\ ~cancel_pending

\* _lazy_listen with line 186 reduced to self._subscriptions.
lazy_listen_needs_active ==
    IF /\ started'
       /\ task = "None"
       /\ subscriptions # <<>>
    THEN /\ task' = "running"
         /\ live_tasks' = live_tasks + 1
         /\ pc' = "start"
         /\ cancel_seen' = FALSE
         /\ retrying' = FALSE
         /\ subscription' = 0
         /\ protocol' = "unbound"
         /\ transport' = "unbound"
         /\ after' = "none"
         /\ replay_idx' = 0
         /\ declared' = <<>>
         /\ UNCHANGED leaked
         /\ outage_warnings' = 0
         /\ check_timed_out' = FALSE
    ELSE UNCHANGED <<task, live_tasks, cancel_seen, loopVars>>

\* _lazy_listen without the second precondition (185): a task is created
\* also when one is running.
lazy_listen_no_task_check ==
    IF /\ started'
       /\ (subscriptions # <<>> \/ pending' # <<>>)
    THEN /\ task' = "running"
         /\ live_tasks' = live_tasks + 1
         /\ pc' = "start"
         /\ cancel_seen' = FALSE
         /\ retrying' = FALSE
         /\ subscription' = 0
         /\ protocol' = "unbound"
         /\ transport' = "unbound"
         /\ after' = "none"
         /\ replay_idx' = 0
         /\ declared' = <<>>
         /\ UNCHANGED leaked
         /\ outage_warnings' = 0
         /\ check_timed_out' = FALSE
    ELSE UNCHANGED <<task, live_tasks, cancel_seen, loopVars>>

\* _lazy_listen (173-188), evaluated on the fields as the caller left them.
\* self.app.loop is set before the startup hooks run and an asyncio.Queue is
\* always truthy, so the third precondition can only hold once started.
lazy_listen ==
    IF /\ started'
       /\ task = "None"
       /\ (subscriptions # <<>> \/ pending' # <<>>)
    THEN /\ task' = "running"
         /\ live_tasks' = live_tasks + 1
         /\ pc' = "start"
         /\ cancel_seen' = FALSE
         /\ retrying' = FALSE
         /\ subscription' = 0
         /\ protocol' = "unbound"
         /\ transport' = "unbound"
         /\ after' = "none"
         /\ replay_idx' = 0
         /\ declared' = <<>>
         /\ UNCHANGED leaked
         /\ outage_warnings' = 0
         /\ check_timed_out' = FALSE
    ELSE UNCHANGED <<task, live_tasks, cancel_seen, loopVars>>

\* EventListener.subscribe (306-320)
subscribe ==
    /\ created < MaxSubs
    /\ created' = created + 1
    /\ IF started
       THEN pending' = Append(pending, created + 1) /\ UNCHANGED pending_pre_async
       ELSE pending_pre_async' = Append(pending_pre_async, created + 1) /\ UNCHANGED pending
    /\ UNCHANGED started
    /\ lazy_listen
    /\ UNCHANGED <<subscriptions, shutting, cancel_pending, stable, relayVars, pubSide>>

\* startup that transfers the holding list in reverse order.
startup_reversed ==
    /\ ~started
    /\ started' = TRUE
    /\ pending' = [i \in 1..Len(pending_pre_async) |->
                      pending_pre_async[Len(pending_pre_async) + 1 - i]]
    /\ pending_pre_async' = <<>>
    /\ lazy_listen
    /\ UNCHANGED <<subscriptions, created, shutting, cancel_pending, stable, relayVars, pubSide>>

\* EventListener.startup (254-264); the lifecycle hook runs once.
startup ==
    /\ ~started
    /\ started' = TRUE
    /\ pending' = pending_pre_async
    /\ pending_pre_async' = <<>>
    /\ lazy_listen
    /\ UNCHANGED <<subscriptions, created, shutting, cancel_pending, stable, relayVars, pubSide>>

\* scheduler.cancel_task: cancel the task, then wait until it is done.
cancel_task ==
    /\ cancel_pending' = TRUE
    /\ shutting' = TRUE

\* EventListener.shutdown (266-269) up to the await of 268, for a task that
\* is running.
shutdown ==
    /\ started
    /\ ~shutting
    /\ task = "running"
    /\ cancel_task
    /\ UNCHANGED <<listenerVars, created, cancel_seen, loopVars, stable, relayVars, pubSide>>

\* The task is done: cancel_task returns and shutdown sets self._task = None
\* (269).  The loop only ends by cancellation, so a shutdown is waiting.
task_done ==
    /\ pc' = "done"
    /\ task' = "None"
    /\ live_tasks' = live_tasks - 1
    /\ shutting' = FALSE

\* Lines 240-242 without the `if not retrying`: every failure is logged.
warn_always ==
    outage_warnings' = outage_warnings + 1

\* Lines 240-242: the warning is logged unless the loop is already retrying.
warn ==
    outage_warnings' = IF retrying THEN outage_warnings ELSE outage_warnings + 1

\* put_back without line 232: the dequeued subscription is forgotten.
put_back_forgets ==
    IF pc \in HoldingPcs
    THEN subscription' = 0 /\ UNCHANGED pending
    ELSE UNCHANGED <<pending, subscription>>

\* Inner handler of lines 229-233: the dequeued subscription goes back.
put_back ==
    IF pc \in HoldingPcs
    THEN pending' = Append(pending, subscription) /\ subscription' = 0
    ELSE UNCHANGED <<pending, subscription>>

\* raise_error with a retry limit: a failure while already retrying ends
\* the loop.
raise_error_gives_up ==
    /\ put_back
    /\ warn
    /\ retrying' = TRUE
    /\ IF retrying
       THEN pc' = "close" /\ after' = "break"
       ELSE pc' = "sleep" /\ UNCHANGED after
    /\ UNCHANGED <<started, pending_pre_async, subscriptions, task, live_tasks, callerVars,
                   protocol, transport, replay_idx, declared, leaked, check_timed_out>>

\* An exception other than CancelledError raised inside the try: the inner
\* handler (229-233) if it applies, then lines 239-244 up to the sleep.
raise_error ==
    /\ put_back
    /\ warn
    /\ retrying' = TRUE
    /\ pc' = "sleep"
    /\ UNCHANGED <<started, pending_pre_async, subscriptions, task, live_tasks, callerVars,
                   protocol, transport, after, replay_idx, declared, leaked,
                   check_timed_out>>

\* First step of the coroutine (191-195), up to the await of connect.
listen_start ==
    /\ At("start")
    /\ retrying' = FALSE
    /\ pc' = "connect"
    /\ UNCHANGED <<listenerVars, callerVars, subscription, protocol, transport,
                   after, replay_idx, declared, leaked, obsVars, stable, relayVars, pubSide>>

\* aioamqp.connect returns or raises (195-199).
listen_connect(ok) ==
    /\ At("connect")
    /\ IF ok
       THEN /\ protocol' = "open"
            /\ transport' = "open"
            /\ leaked' = (leaked \/ transport = "open")
            /\ check_timed_out' = FALSE
            /\ UNCHANGED outage_warnings
            /\ pc' = "channel"
            /\ UNCHANGED <<listenerVars, callerVars, retrying, subscription,
                           after, replay_idx, declared>>
       ELSE ~stable /\ raise_error
    /\ UNCHANGED <<stable, relayVars, pubSide>>

\* Line 206 left out: the drain loop starts right after the channel opens.
begin_replay_skipped ==
    pc' = "ensure_open" /\ replay_idx' = 0

\* The comprehension of line 206 starts: its first declare_on_remote, or
\* nothing to declare.
begin_replay ==
    IF subscriptions = <<>>
    THEN pc' = "ensure_open" /\ replay_idx' = 0
    ELSE pc' = "replay" /\ replay_idx' = 1

\* protocol.channel() returns or raises (201-206); on success the replay of
\* self._subscriptions starts on the new channel.
listen_channel(ok) ==
    /\ At("channel")
    /\ IF ok
       THEN /\ protocol = "open"
            /\ declared' = <<>>
            /\ begin_replay
            /\ UNCHANGED <<listenerVars, callerVars, retrying, subscription,
                           protocol, transport, after, leaked, obsVars>>
       ELSE (~stable \/ protocol # "open") /\ raise_error
    /\ UNCHANGED <<stable, relayVars, pubSide>>

\* The comprehension of 206 with failures swallowed per subscription: the
\* replay goes on to the next one and then to the drain loop.
listen_replay_ignores_failure(ok) ==
    /\ At("replay")
    /\ IF ok
       THEN /\ protocol = "open"
            /\ declared' = Append(declared, <<subscriptions[replay_idx], "replay">>)
       ELSE /\ ~stable \/ protocol # "open"
            /\ UNCHANGED declared
    /\ IF replay_idx = Len(subscriptions)
       THEN pc' = "ensure_open" /\ replay_idx' = 0
       ELSE pc' = "replay" /\ replay_idx' = replay_idx + 1
    /\ UNCHANGED <<listenerVars, callerVars, retrying, subscription,
                   protocol, transport, after, leaked, obsVars, stable, relayVars, pubSide>>

\* One declare_on_remote of the comprehension of line 206.
listen_replay(ok) ==
    /\ At("replay")
    /\ IF ok
       THEN /\ protocol = "open"
            /\ declared' = Append(declared, <<subscriptions[replay_idx], "replay">>)
            /\ IF replay_idx = Len(subscriptions)
               THEN pc' = "ensure_open" /\ replay_idx' = 0
               ELSE pc' = "replay" /\ replay_idx' = replay_idx + 1
            /\ UNCHANGED <<listenerVars, callerVars, retrying, subscription,
                           protocol, transport, after, leaked, obsVars>>
       ELSE (~stable \/ protocol # "open") /\ raise_error
    /\ UNCHANGED <<stable, relayVars, pubSide>>

\* protocol.ensure_open() of line 212, then 213 and the await of 215.
listen_ensure_open ==
    /\ At("ensure_open")
    /\ IF protocol = "open"
       THEN /\ retrying' = FALSE
            /\ outage_warnings' = 0
            /\ pc' = "get"
            /\ UNCHANGED <<listenerVars, callerVars, subscription, protocol,
                           transport, after, replay_idx, declared, leaked,
                           check_timed_out>>
       ELSE raise_error
    /\ UNCHANGED <<stable, relayVars, pubSide>>

\* Line 215 reading the head of the queue without removing it.
listen_get_peeks ==
    /\ At("get")
    /\ pending # <<>>
    /\ subscription' = Head(pending)
    /\ pc' = "ensure_open2"
    /\ UNCHANGED <<listenerVars, callerVars, retrying, protocol, transport, after,
                   replay_idx, declared, leaked, obsVars, stable, relayVars, pubSide>>

\* wait_for(self._pending.get()) returns an item (215-218).
listen_get ==
    /\ At("get")
    /\ pending # <<>>
    /\ subscription' = Head(pending)
    /\ pending' = Tail(pending)
    /\ pc' = "ensure_open2"
    /\ UNCHANGED <<started, pending_pre_async, subscriptions, task, live_tasks, callerVars,
                   retrying, protocol, transport, after, replay_idx, declared,
                   leaked, obsVars, stable, relayVars, pubSide>>

\* The handler of 220-222 waiting on the queue again without the open-check
\* of 212.
listen_get_timeout_waits_again ==
    /\ At("get")
    /\ pending = <<>>
    /\ pc' = "get"
    /\ UNCHANGED <<listenerVars, callerVars, retrying, subscription, protocol,
                   transport, after, replay_idx, declared, leaked, obsVars, stable,
                   relayVars, pubSide>>

\* wait_for times out on the empty queue (220-222): continue.
listen_get_timeout ==
    /\ At("get")
    /\ pending = <<>>
    /\ pc' = "ensure_open"
    /\ UNCHANGED <<listenerVars, callerVars, retrying, subscription, protocol,
                   transport, after, replay_idx, declared, leaked, obsVars, stable, relayVars, pubSide>>

\* protocol.ensure_open() of line 225.
listen_ensure_open2 ==
    /\ At("ensure_open2")
    /\ IF protocol = "open"
       THEN /\ pc' = "declare"
            /\ outage_warnings' = 0
            /\ UNCHANGED <<listenerVars, callerVars, retrying, subscription,
                           protocol, transport, after, replay_idx, declared, leaked,
                           check_timed_out>>
       ELSE raise_error
    /\ UNCHANGED <<stable, relayVars, pubSide>>

\* protocol.ensure_open() raises TimeoutError on a connection that is still
\* marked open.  At 212 the handler of 220-222 catches it: continue, back to
\* 209-212 on the same session.  At 225 it is an exception like any other:
\* 229-233 and the outer handler.
listen_open_check_timeout ==
    /\ task = "running"
    /\ pc \in {"ensure_open", "ensure_open2"}
    /\ ~cancel_pending
    /\ ~stable
    /\ protocol = "open"
    /\ IF pc = "ensure_open"
       THEN /\ check_timed_out' = TRUE
            /\ UNCHANGED <<listenerVars, callerVars, pc, retrying, subscription,
                           protocol, transport, after, replay_idx, declared, leaked,
                           outage_warnings>>
       ELSE raise_error
    /\ UNCHANGED <<stable, relayVars, pubSide>>

\* Line 227 as self._subscriptions.insert(0, subscription).
listen_declare_prepends(ok) ==
    /\ At("declare")
    /\ IF ok
       THEN /\ protocol = "open"
            /\ declared' = Append(declared, <<subscription, "drain">>)
            /\ subscriptions' = <<subscription>> \o subscriptions
            /\ subscription' = 0
            /\ pc' = "ensure_open"
            /\ UNCHANGED <<started, pending_pre_async, pending, task, live_tasks, callerVars,
                           retrying, protocol, transport, after, replay_idx, leaked, obsVars>>
       ELSE (~stable \/ protocol # "open") /\ raise_error
    /\ UNCHANGED <<stable, relayVars, pubSide>>

\* Lines 226 and 227 swapped: the subscription is made active before it is
\* declared, and stays active when the declaration fails.
listen_declare_appends_first(ok) ==
    /\ At("declare")
    /\ IF ok
       THEN /\ protocol = "open"
            /\ declared' = Append(declared, <<subscription, "drain">>)
            /\ subscriptions' = Append(subscriptions, subscription)
            /\ subscription' = 0
            /\ pc' = "ensure_open"
            /\ UNCHANGED <<started, pending_pre_async, pending, task, live_tasks, callerVars,
                           retrying, protocol, transport, after, replay_idx, leaked, obsVars>>
       ELSE /\ ~stable \/ protocol # "open"
            /\ subscriptions' = Append(subscriptions, subscription)
            /\ put_back
            /\ warn
            /\ retrying' = TRUE
            /\ pc' = "sleep"
            /\ UNCHANGED <<started, pending_pre_async, task, live_tasks, callerVars,
                           protocol, transport, after, replay_idx, declared, leaked,
                           check_timed_out>>
    /\ UNCHANGED <<stable, relayVars, pubSide>>

\* subscription.declare_on_remote(channel) of line 226, then 227 and back
\* to 209-212.
listen_declare(ok) ==
    /\ At("declare")
    /\ IF ok
       THEN /\ protocol = "open"
            /\ declared' = Append(declared, <<subscription, "drain">>)
            /\ subscriptions' = Append(subscriptions, subscription)
            /\ subscription' = 0
            /\ pc' = "ensure_open"
            /\ UNCHANGED <<started, pending_pre_async, pending, task, live_tasks, callerVars,
                           retrying, protocol, transport, after, replay_idx, leaked, obsVars>>
       ELSE (~stable \/ protocol # "open") /\ raise_error
    /\ UNCHANGED <<stable, relayVars, pubSide>>

\* asyncio.sleep(RECONNECT_INTERVAL) returns (244-245): continue, which
\* runs the finally clause first.
listen_sleep ==
    /\ At("sleep")
    /\ pc' = "close"
    /\ after' = "continue"
    /\ UNCHANGED <<listenerVars, callerVars, retrying, subscription, protocol,
                   transport, replay_idx, declared, leaked, obsVars, stable, relayVars, pubSide>>

\* What follows the finally clause: the next iteration (continue), or the
\* end of the coroutine (break at 237, or the CancelledError of the sleep).
leave_finally ==
    IF after = "continue"
    THEN pc' = "connect" /\ UNCHANGED <<task, live_tasks, shutting>>
    ELSE task_done

\* The finally clause (247-252).  protocol.close() suspends only on an open
\* session; on an unbound name or a closed session it raises at once, and
\* transport.close() is skipped.
listen_close ==
    /\ task = "running"
    /\ pc = "close"
    /\ ~cancel_pending \/ protocol # "open"
    /\ IF protocol = "open"
       THEN protocol' = "closed" /\ transport' = "closed"
       ELSE UNCHANGED <<protocol, transport>>
    /\ leave_finally
    /\ UNCHANGED <<started, pending_pre_async, pending, subscriptions, created,
                   cancel_pending, cancel_seen, retrying, subscription, after,
                   replay_idx, declared, leaked, obsVars, stable, relayVars, pubSide>>

\* Where a CancelledError thrown at the current await ends up.
cancelled_at_close ==
    \* 251: `except Exception: pass` swallows it; transport.close() is skipped
    /\ leave_finally
    /\ UNCHANGED <<pending, subscription, after>>

\* The CancelledError of shutdown's cancel is thrown at the current await.
listen_cancelled ==
    /\ task = "running"
    /\ cancel_pending
    /\ pc = "close" => protocol = "open"
    /\ cancel_pending' = FALSE
    /\ cancel_seen' = TRUE
    /\ CASE pc = "start" ->
              \* the coroutine never starts
              task_done /\ UNCHANGED <<pending, subscription, after>>
         [] pc \in TryPcs ->
              \* 229-233 if it applies, then 235-237: break, through finally
              /\ put_back
              /\ pc' = "close"
              /\ after' = "break"
              /\ UNCHANGED <<task, live_tasks, shutting>>
         [] pc = "sleep" ->
              \* raised inside the handler of 239: propagates through finally
              /\ pc' = "close"
              /\ after' = "raise"
              /\ UNCHANGED <<task, live_tasks, shutting, pending, subscription>>
         [] pc = "close" -> cancelled_at_close
    /\ UNCHANGED <<started, pending_pre_async, subscriptions, created, retrying,
                   protocol, transport, replay_idx, declared, leaked, obsVars, stable, relayVars, pubSide>>

(***************************************************************************)
(* The broker                                                              *)
(***************************************************************************)

\* The connection of the listener's session is lost.
broker_drop ==
    /\ ~stable
    /\ task = "running"
    /\ protocol = "open"
    /\ protocol' = "closed"
    /\ transport' = "closed"
    /\ UNCHANGED <<listenerVars, callerVars, pc, retrying, subscription, after,
                   replay_idx, declared, leaked, obsVars, stable, relayVars, pubSide>>

\* From now on the broker accepts connections and declarations.
broker_stabilise ==
    /\ ~stable
    /\ stable' = TRUE
    /\ UNCHANGED <<listenerSide, pubSide>>

(***************************************************************************)
(* EventSubscription._relay                                                *)
(***************************************************************************)

\* _relay without the try/except of 138-141.
relay_uncaught(s, body_ok, callback_ok) ==
    /\ task = "running"
    /\ protocol = "open"
    /\ s \in DeclaredSubs
    /\ IF body_ok /\ callback_ok
       THEN relay_ok_sub' = s /\ UNCHANGED <<relay_error_sub, relay_raised>>
       ELSE relay_raised' = TRUE /\ UNCHANGED <<relay_error_sub, relay_ok_sub>>
    /\ UNCHANGED <<listenerVars, callerVars, loopVars, stable, pubSide>>

\* _relay (132-141) for a message on the consumer of subscription s:
\* json.loads(body) fails or not, the callback raises or not.
relay(s, body_ok, callback_ok) ==
    /\ task = "running"
    /\ protocol = "open"
    /\ s \in DeclaredSubs
    /\ IF body_ok /\ callback_ok
       THEN relay_ok_sub' = s /\ UNCHANGED relay_error_sub
       ELSE relay_error_sub' = s /\ relay_ok_sub' = 0
    /\ relay_raised' = relay_raised
    /\ UNCHANGED <<listenerVars, callerVars, loopVars, stable, pubSide>>

(***************************************************************************)
(* EventPublisher                                                          *)
(***************************************************************************)

Min(a, b) == IF a < b THEN a ELSE b

\* The awaits of _ensure_channel.
EnsurePcs == {"connect", "channel", "ensure_open"}

\* The publish call of caller c can be resumed at its await: the next step
\* of a task on which cancel() was called is the CancelledError.
Resumable(c) == c = "log" => ~log_cancel_pending

\* EventPublisher.connected (348-350) on given field values.
connected(session, channel) == session # "None" /\ channel

\* Where _ensure_channel (371-381) first suspends.
ensure_entry(session, channel) ==
    IF connected(session, channel) THEN "ensure_open" ELSE "connect"

\* publish without the retry of 432-435: the first failure propagates.
ensure_failed_no_retry(c, where) ==
    /\ pub_pc' = [pub_pc EXCEPT ![c] = "idle"]
    /\ pub_out' = [pub_out EXCEPT ![c] = "raised_ensure"]
    /\ pub_fail1' = [pub_fail1 EXCEPT ![c] = where]
    /\ UNCHANGED <<pub_attempt, pub_sent>>

\* An exception leaves _ensure_channel: publish (430-435) calls it once
\* more after the first failure and lets the second one propagate.  The
\* fields are read as the failed call left them.
ensure_failed(c, where) ==
    IF pub_attempt[c] = 1
    THEN /\ pub_attempt' = [pub_attempt EXCEPT ![c] = 2]
         /\ pub_fail1' = [pub_fail1 EXCEPT ![c] = where]
         /\ pub_pc' = [pub_pc EXCEPT ![c] = ensure_entry(pub_session', pub_channel')]
         /\ UNCHANGED <<pub_out, pub_sent>>
    ELSE /\ pub_pc' = [pub_pc EXCEPT ![c] = "idle"]
         /\ pub_out' = [pub_out EXCEPT ![c] = "raised_ensure"]
         /\ UNCHANGED <<pub_attempt, pub_fail1, pub_sent>>

\* publish() is called (430-431): the first _ensure_channel call starts.
publish_begin(c) ==
    /\ pub_attempt' = [pub_attempt EXCEPT ![c] = 1]
    /\ pub_fail1' = [pub_fail1 EXCEPT ![c] = "none"]
    /\ pub_sent' = [pub_sent EXCEPT ![c] = FALSE]
    /\ pub_out' = [pub_out EXCEPT ![c] = "none"]
    /\ pub_pc' = [pub_pc EXCEPT ![c] = ensure_entry(pub_session, pub_channel)]
    /\ UNCHANGED <<pub_session, pub_channel, pub_orphans>>

\* A direct caller calls publish(); it makes one call at a time.
publish(c) ==
    /\ pub_pc[c] = "idle"
    /\ publish_begin(c)
    /\ UNCHANGED <<listenerSide, stable, logVars>>

\* aioamqp.connect of 373 returns or raises.  On return the fields are
\* rebound, whatever they referred to.
ensure_channel_connect(c, ok) ==
    /\ pub_pc[c] = "connect"
    /\ Resumable(c)
    /\ IF ok
       THEN /\ pub_orphans' = IF pub_session = "open"
                              THEN Min(pub_orphans + 1, MaxOrphans)
                              ELSE pub_orphans
            /\ pub_session' = "open"
            /\ pub_pc' = [pub_pc EXCEPT ![c] = "channel"]
            /\ UNCHANGED <<pub_channel, pub_attempt, pub_fail1, pub_sent, pub_out>>
       ELSE /\ ~stable
            /\ UNCHANGED <<pub_session, pub_channel, pub_orphans>>
            /\ ensure_failed(c, "connect")
    /\ UNCHANGED <<listenerSide, stable, logVars>>

\* self._protocol.channel() of 378 returns or raises.
ensure_channel_channel(c, ok) ==
    /\ pub_pc[c] = "channel"
    /\ Resumable(c)
    /\ IF ok
       THEN /\ pub_session = "open"
            /\ pub_channel' = TRUE
            /\ pub_pc' = [pub_pc EXCEPT ![c] = "ensure_open"]
            /\ UNCHANGED <<pub_session, pub_orphans, pub_attempt, pub_fail1,
                           pub_sent, pub_out>>
       ELSE /\ ~stable \/ pub_session # "open"
            /\ UNCHANGED <<pub_session, pub_channel, pub_orphans>>
            /\ ensure_failed(c, "channel")
    /\ UNCHANGED <<listenerSide, stable, logVars>>

\* self._protocol.ensure_open() of 380-384.  On a lost connection it raises
\* AioamqpException: _close (360-369), where protocol.close() raises at once
\* on the closed protocol, and _reset (355-358).  Otherwise publish goes on
\* to the await of exchange_declare (438-440).
ensure_channel_ensure_open(c) ==
    /\ pub_pc[c] = "ensure_open"
    /\ Resumable(c)
    /\ IF pub_session = "open"
       THEN /\ pub_pc' = [pub_pc EXCEPT ![c] = "declare"]
            /\ UNCHANGED <<pub_session, pub_channel, pub_orphans, pub_attempt,
                           pub_fail1, pub_sent, pub_out>>
       ELSE /\ pub_session' = "None"
            /\ pub_channel' = FALSE
            /\ UNCHANGED pub_orphans
            /\ ensure_failed(c, "ensure_open")
    /\ UNCHANGED <<listenerSide, stable, logVars>>

\* self._channel.exchange_declare of 440-444 returns or raises.
publish_declare(c, ok) ==
    /\ pub_pc[c] = "declare"
    /\ Resumable(c)
    /\ IF ok
       THEN /\ pub_session = "open"
            /\ pub_pc' = [pub_pc EXCEPT ![c] = "send"]
            /\ UNCHANGED pub_out
       ELSE /\ ~stable \/ pub_session # "open"
            /\ pub_pc' = [pub_pc EXCEPT ![c] = "idle"]
            /\ pub_out' = [pub_out EXCEPT ![c] = "raised_declare"]
    /\ UNCHANGED <<pub_session, pub_channel, pub_orphans, pub_attempt, pub_fail1,
                   pub_sent, listenerSide, stable, logVars>>

\* self._channel.basic_publish of 446-450 returns or raises.
publish_send(c, ok) ==
    /\ pub_pc[c] = "send"
    /\ Resumable(c)
    /\ IF ok
       THEN /\ pub_session = "open"
            /\ pub_sent' = [pub_sent EXCEPT ![c] = TRUE]
            /\ pub_out' = [pub_out EXCEPT ![c] = "ok"]
       ELSE /\ ~stable \/ pub_session # "open"
            /\ pub_out' = [pub_out EXCEPT ![c] = "raised_send"]
            /\ UNCHANGED pub_sent
    /\ pub_pc' = [pub_pc EXCEPT ![c] = "idle"]
    /\ UNCHANGED <<pub_session, pub_channel, pub_orphans, pub_attempt, pub_fail1,
                   listenerSide, stable, logVars>>

\* EventPublisher.shutdown (389-390), with no publish call in progress:
\* _close closes an open session (364-365); on a lost or absent one the call
\* of 364 raises and is swallowed; _reset in both cases.
publisher_shutdown ==
    /\ \A c \in Callers : pub_pc[c] = "idle"
    /\ pub_session # "None"
    /\ pub_session' = "None"
    /\ pub_channel' = FALSE
    /\ UNCHANGED <<pub_orphans, pub_pc, pub_attempt, pub_fail1, pub_sent, pub_out,
                   listenerSide, stable, logVars>>

\* The publisher's connection is lost.
broker_drop_publisher ==
    /\ ~stable
    /\ pub_session = "open"
    /\ pub_session' = "lost"
    /\ UNCHANGED <<pub_channel, pub_orphans, pub_pc, pub_attempt, pub_fail1,
                   pub_sent, pub_out, listenerSide, stable, logVars>>

\* Connections of the publisher that are open.
LiveConnections == (IF pub_session = "open" THEN 1 ELSE 0) + pub_orphans

(***************************************************************************)
(* EventLogHandler                                                         *)
(***************************************************************************)

logRunVars == <<log_started, log_queue, log_pc, log_record, log_published, log_retried>>
logEmitVars == <<log_emitted, log_dropped, emit_raised>>
logCancelVars == <<log_shutting, log_cancel_pending, log_cancel_seen>>

\* asyncio.Queue.full(): never with maxsize <= 0.
full(q) == QueueMaxsize > 0 /\ Len(q) >= QueueMaxsize

\* EventLogHandler.startup (462-464): the queue, and the _run task up to
\* its first await (472-478).  The lifecycle hook runs once.
log_startup ==
    /\ ~log_started
    /\ log_pc = "off"
    /\ log_started' = TRUE
    /\ log_queue' = <<>>
    /\ log_pc' = "get"
    /\ UNCHANGED <<log_record, log_published, log_retried, logEmitVars, logCancelVars,
                   pubVars, listenerSide, stable>>

\* emit without the try/except of 501-504: put_nowait on the missing or
\* full queue raises to the logging call.
emit_unguarded ==
    /\ IF log_started /\ ~full(log_queue)
       THEN /\ log_emitted < MaxRecords
            /\ log_emitted' = log_emitted + 1
            /\ log_queue' = Append(log_queue, log_emitted + 1)
            /\ UNCHANGED <<log_dropped, emit_raised>>
       ELSE /\ ~emit_raised
            /\ emit_raised' = TRUE
            /\ UNCHANGED <<log_queue, log_emitted, log_dropped>>
    /\ UNCHANGED <<log_started, log_pc, log_record, log_published, log_retried,
                   logCancelVars, pubVars, listenerSide, stable>>

\* EventLogHandler.emit (500-504): put_nowait; AttributeError (self._queue
\* is None) and QueueFull are swallowed and the record is dropped.
emit ==
    /\ IF log_started /\ ~full(log_queue)
       THEN /\ log_emitted < MaxRecords
            /\ log_emitted' = log_emitted + 1
            /\ log_queue' = Append(log_queue, log_emitted + 1)
            /\ UNCHANGED log_dropped
       ELSE /\ log_dropped < MaxDropped
            /\ log_dropped' = log_dropped + 1
            /\ UNCHANGED <<log_queue, log_emitted>>
    /\ UNCHANGED <<log_started, log_pc, log_record, log_published, log_retried,
                   emit_raised, logCancelVars, pubVars, listenerSide, stable>>

\* self._queue.get() of 478 returns a record; _run calls publish (479).
run_get ==
    /\ log_pc = "get"
    /\ ~log_cancel_pending
    /\ log_queue # <<>>
    /\ log_record' = Head(log_queue)
    /\ log_queue' = Tail(log_queue)
    /\ log_pc' = "publish"
    /\ log_retried' = FALSE
    /\ publish_begin("log")
    /\ UNCHANGED <<log_started, log_published, logEmitVars, logCancelVars,
                   listenerSide, stable>>

\* _run with `record = None` also in the handler of 496: a record whose
\* publish failed is dropped.
run_published_drops ==
    /\ log_pc = "publish"
    /\ pub_pc["log"] = "idle"
    /\ IF pub_out["log"] = "ok"
       THEN /\ log_published' = Append(log_published, log_record)
            /\ log_pc' = "get"
       ELSE /\ log_pc' = "sleep"
            /\ UNCHANGED log_published
    /\ log_record' = 0
    /\ UNCHANGED <<log_started, log_queue, log_retried, logEmitVars, logCancelVars,
                   pubVars, listenerSide, stable>>

\* publish returned or raised in _run: 491 and back to the await of 478, or
\* the handler of 496-497 up to the sleep.
run_published ==
    /\ log_pc = "publish"
    /\ pub_pc["log"] = "idle"
    /\ IF pub_out["log"] = "ok"
       THEN /\ log_published' = Append(log_published, log_record)
            /\ log_record' = 0
            /\ log_pc' = "get"
       ELSE /\ log_pc' = "sleep"
            /\ UNCHANGED <<log_published, log_record>>
    /\ UNCHANGED <<log_started, log_queue, log_retried, logEmitVars, logCancelVars,
                   pubVars, listenerSide, stable>>

\* The sleep of 497 returns; 478 keeps the retained record, or waits for the
\* next one when there is none.
run_sleep ==
    /\ log_pc = "sleep"
    /\ ~log_cancel_pending
    /\ IF log_record # 0
       THEN log_pc' = "publish" /\ log_retried' = TRUE /\ publish_begin("log")
       ELSE log_pc' = "get" /\ UNCHANGED <<log_retried, pubVars>>
    /\ UNCHANGED <<log_started, log_queue, log_record, log_published, logEmitVars,
                   logCancelVars, listenerSide, stable>>

\* scheduler.cancel_task on the _run task: cancel it, then wait until it is
\* done.
log_cancel_task ==
    /\ log_cancel_pending' = TRUE
    /\ log_shutting' = TRUE

\* EventLogHandler.shutdown (466-467) up to the await of 467.
log_shutdown ==
    /\ log_started
    /\ ~log_shutting
    /\ log_pc \in {"get", "publish", "sleep"}
    /\ log_cancel_task
    /\ UNCHANGED <<logRunVars, logEmitVars, log_cancel_seen, pubVars, listenerSide, stable>>

\* The _run task is done: cancel_task returns and shutdown drops the task
\* and the queue (468-469).
run_done ==
    /\ log_pc' = "done"
    /\ log_record' = 0
    /\ log_started' = FALSE
    /\ log_queue' = <<>>
    /\ log_shutting' = FALSE

\* The CancelledError of shutdown's cancel is thrown at the await the _run
\* task is suspended at.
log_cancelled ==
    /\ log_cancel_pending
    /\ log_pc \in {"get", "publish", "sleep"}
    /\ log_pc = "publish" => pub_pc["log"] # "idle"
    /\ log_cancel_pending' = FALSE
    /\ log_cancel_seen' = TRUE
    /\ UNCHANGED <<pub_session, pub_channel, pub_orphans>>
    /\ IF log_pc = "publish" /\ pub_pc["log"] \in EnsurePcs /\ pub_attempt["log"] = 1
       THEN \* thrown inside the try of 430-431: `except Exception` (432)
            \* catches it and publish calls _ensure_channel again (435)
            /\ ensure_failed("log", "cancelled")
            /\ UNCHANGED <<log_started, log_queue, log_pc, log_record, log_shutting>>
       ELSE \* 493-494: break; or raised by the sleep inside the handler of 496
            /\ run_done
            /\ IF log_pc = "publish"
               THEN /\ pub_pc' = [pub_pc EXCEPT !["log"] = "idle"]
                    /\ pub_out' = [pub_out EXCEPT !["log"] = "cancelled"]
               ELSE UNCHANGED <<pub_pc, pub_out>>
            /\ UNCHANGED <<pub_attempt, pub_fail1, pub_sent>>
    /\ UNCHANGED <<log_published, log_retried, logEmitVars, listenerSide, stable>>

(***************************************************************************)
(* Specifications                                                          *)
(***************************************************************************)

Init == ListenerInit /\ PublisherInit

ListenerNext ==
    \/ subscribe
    \/ startup
    \/ shutdown
    \/ listen_start
    \/ \E ok \in BOOLEAN : listen_connect(ok)
    \/ \E ok \in BOOLEAN : listen_channel(ok)
    \/ \E ok \in BOOLEAN : listen_replay(ok)
    \/ listen_ensure_open
    \/ listen_get
    \/ listen_get_timeout
    \/ listen_ensure_open2
    \/ listen_open_check_timeout
    \/ \E ok \in BOOLEAN : listen_declare(ok)
    \/ listen_sleep
    \/ listen_close
    \/ listen_cancelled
    \/ broker_drop
    \/ broker_stabilise

Next ==
    \/ ListenerNext
    \/ \E s \in SubIds, body_ok \in BOOLEAN, callback_ok \in BOOLEAN :
          relay(s, body_ok, callback_ok)

Spec == Init /\ [][Next]_vars

\* A step of the listener task.  The event loop resumes a task whose await
\* has completed, and connect, declare, sleep and close all complete.
listen_step ==
    \/ listen_start
    \/ \E ok \in BOOLEAN : listen_connect(ok)
    \/ \E ok \in BOOLEAN : listen_channel(ok)
    \/ \E ok \in BOOLEAN : listen_replay(ok)
    \/ listen_ensure_open
    \/ listen_get
    \/ listen_get_timeout
    \/ listen_ensure_open2
    \/ listen_open_check_timeout
    \/ \E ok \in BOOLEAN : listen_declare(ok)
    \/ listen_sleep
    \/ listen_close
    \/ listen_cancelled

\* The listener without message traffic, under fair scheduling of its task.
FairSpec == Init /\ [][ListenerNext]_vars /\ WF_vars(listen_step)

\* The publisher with its direct caller.
PubNext ==
    \/ publish("api")
    \/ \E ok \in BOOLEAN : ensure_channel_connect("api", ok)
    \/ \E ok \in BOOLEAN : ensure_channel_channel("api", ok)
    \/ ensure_channel_ensure_open("api")
    \/ \E ok \in BOOLEAN : publish_declare("api", ok)
    \/ \E ok \in BOOLEAN : publish_send("api", ok)
    \/ publisher_shutdown
    \/ broker_drop_publisher
    \/ broker_stabilise

PubSpec == Init /\ [][PubNext]_vars

\* A step of the _run task, the publish call it makes included.
run_step ==
    \/ run_get
    \/ run_published
    \/ run_sleep
    \/ \E ok \in BOOLEAN : ensure_channel_connect("log", ok)
    \/ \E ok \in BOOLEAN : ensure_channel_channel("log", ok)
    \/ ensure_channel_ensure_open("log")
    \/ \E ok \in BOOLEAN : publish_declare("log", ok)
    \/ \E ok \in BOOLEAN : publish_send("log", ok)

\* The log handler with the publisher it uses.
LogNext ==
    \/ log_startup
    \/ emit
    \/ run_step
    \/ broker_drop_publisher
    \/ broker_stabilise

LogSpec == Init /\ [][LogNext]_vars

LogFairSpec == Init /\ [][LogNext]_vars /\ WF_vars(run_step)

\* The publisher used by its direct caller and by the log handler's task.
SharedNext ==
    \/ LogNext
    \/ publish("api")
    \/ \E ok \in BOOLEAN : ensure_channel_connect("api", ok)
    \/ \E ok \in BOOLEAN : ensure_channel_channel("api", ok)
    \/ ensure_channel_ensure_open("api")
    \/ \E ok \in BOOLEAN : publish_declare("api", ok)
    \/ \E ok \in BOOLEAN : publish_send("api", ok)
    \/ publisher_shutdown

SharedSpec == Init /\ [][SharedNext]_vars

\* The log handler over its whole life, shutdown included.
LogLifeNext ==
    \/ LogNext
    \/ log_shutdown
    \/ log_cancelled

LogLifeSpec == Init /\ [][LogLifeNext]_vars

(***************************************************************************)
(* Properties of the listener                                              *)
(***************************************************************************)

Occurrences(seq, s) == Cardinality({i \in 1..Len(seq) : seq[i] = s})

\* Number of times s is pending: in the pre-start list or in the queue.
InPending(s) == Occurrences(pending_pre_async, s) + Occurrences(pending, s)

\* Number of times s is active.
InActive(s) == Occurrences(subscriptions, s)

\* s was dequeued and is held by the loop in local `subscription`.
InHand(s) == IF pc \in HoldingPcs /\ subscription = s THEN 1 ELSE 0

Accepted == 1..created

\* C1 as stated: every accepted subscription is at every moment in exactly
\* one of pending (pre-start list or queue) and active, never in both and
\* never in neither.
C1_PendingXorActive ==
    \A s \in Accepted : InPending(s) + InActive(s) = 1

\* C1 amended: every accepted subscription is at every moment in exactly one
\* of pending, the loop's local `subscription` (dequeued, being checked and
\* declared) and active: never in two of them, never twice, never in none.
C1_PendingHeldOrActive ==
    \A s \in Accepted : InPending(s) + InHand(s) + InActive(s) = 1

\* C1 witness: one subscription is held by the loop while another is
\* pending again after a failed declaration and a third is active.
C1_Witness ==
    /\ pc = "declare"
    /\ subscription # 0
    /\ pending # <<>>
    /\ subscriptions # <<>>
    /\ Head(pending) < subscriptions[1]

\* C2: on a session, every declaration made by the replay of the active list
\* comes before every declaration of a dequeued subscription, and whenever
\* the loop waits on the queue or holds a dequeued subscription, the whole
\* active list has been declared on the current session, in its order.
C2_ReplayBeforeDrain ==
    /\ \A i, j \in 1..Len(declared) :
          (declared[i][2] = "replay" /\ declared[j][2] = "drain") => i < j
    /\ pc \in {"get"} \cup HoldingPcs =>
          /\ Len(declared) = Len(subscriptions)
          /\ \A i \in 1..Len(declared) : declared[i][1] = subscriptions[i]

\* C2 witness: after a reconnect two active subscriptions were replayed and
\* a pending one has been dequeued on the new session.
C2_Witness ==
    /\ pc = "ensure_open2"
    /\ Len(declared) = 2
    /\ declared[1][2] = "replay"
    /\ declared[2][2] = "replay"

\* C5: no exception escapes _relay, and a relayed message changes nothing of
\* the listener, its loop or its session.
C5_RelayNeverRaises ==
    [][ /\ ~relay_raised'
        /\ relayVars' # relayVars => UNCHANGED <<listenerVars, callerVars, loopVars>>
      ]_vars

\* C5 witness: after an error was logged for one subscription, the callback
\* of another subscription got a later message.
C5_Witness ==
    /\ relay_error_sub # 0
    /\ relay_ok_sub # 0
    /\ relay_ok_sub # relay_error_sub

\* C6 as stated: once the cancellation has been thrown into the task, the
\* task only closes its session and ends: it never waits for a connection
\* again, and when it has ended its transport is not open.
C6_CancelStopsLoop ==
    cancel_seen =>
        /\ pc \in {"close", "done"}
        /\ pc = "done" => transport # "open"

\* C7: the loop ends only by cancellation; every failure inside the try leads
\* to the backoff sleep, and the sleep, unless cancelled, to the finally
\* clause and from there to the next connection attempt.
C7_LoopEndsOnlyByCancel ==
    [][ /\ (pc # "done" /\ pc' = "done") => cancel_seen'
        /\ (pc \in TryPcs /\ pc' \notin TryPcs /\ cancel_seen' = cancel_seen)
              => pc' = "sleep"
        /\ (pc = "sleep" /\ pc' # "sleep" /\ cancel_seen' = cancel_seen)
              => (pc' = "close" /\ after' = "continue")
        /\ (pc = "close" /\ after = "continue" /\ pc' # "close")
              => pc' = "connect"
      ]_vars

\* C7 witness: the loop waits for a connection again after a failure that
\* happened while it was already retrying.
C7_Witness ==
    /\ pc = "connect"
    /\ retrying
    /\ protocol = "closed"
    /\ ~cancel_seen
    /\ subscriptions # <<>>

\* C8: if the listener is started and never cancelled, and the broker is
\* stable from some point on, every accepted subscription is eventually
\* active and declared on the open current session.
C8_EventuallyActive ==
    (<>started /\ <>stable /\ []~shutting) =>
        \A s \in SubIds :
            [](s \in Accepted =>
                 <>(InActive(s) = 1 /\ s \in DeclaredSubs /\ protocol = "open"))

\* C8 witness: on a stable broker, after a reconnect, the listener is
\* connected with every subscription active and declared, the last one
\* after having been put back at least once.
C8_Witness ==
    /\ stable
    /\ ~shutting
    /\ created = MaxSubs
    /\ protocol = "open"
    /\ Len(subscriptions) = MaxSubs
    /\ DeclaredSubs = SubIds
    /\ subscriptions[1] # 1
    /\ declared[1][2] = "replay"

\* C9: before startup, subscribe only appends to the holding list (no task,
\* no queue); startup moves the holding list into the queue as it is, in
\* order, and empties it; after startup every subscription goes to the back
\* of the queue, and no subscription is ever pending twice.
C9_HeldMovedOnce ==
    [][ /\ (~started' /\ created' = created + 1) =>
              /\ pending_pre_async' = Append(pending_pre_async, created')
              /\ pending' = <<>>
              /\ task' = "None"
        /\ (~started /\ started') =>
              /\ pending' = pending_pre_async
              /\ pending_pre_async' = <<>>
        /\ started => pending_pre_async' = <<>>
        /\ (started /\ created' = created + 1) =>
              pending' = Append(pending, created')
        /\ \A s \in SubIds : Occurrences(pending_pre_async', s) + Occurrences(pending', s) <= 1
      ]_vars

\* C9 witness: the subscriptions held before startup are at the head of the
\* queue, in order, ahead of one made after startup.
C9_Witness ==
    /\ started
    /\ pending = <<1, 2, 3>>
    /\ pc = "start"

(***************************************************************************)
(* Properties of the publisher and of the log handler                      *)
(***************************************************************************)

\* C3: a publish call runs _ensure_channel at most twice.  It leaves the
\* ensure step either for exchange_declare, after an attempt that succeeded,
\* or by raising after the second attempt failed, and then it has sent
\* nothing; a first failure always starts the second attempt, and a second
\* attempt that finds its session open goes on to declare and send.  A call
\* that returns normally has sent its message.
C3_RetryOnce ==
    [][ \A c \in Callers :
          /\ pub_attempt'[c] <= 2
          /\ (pub_pc[c] \in EnsurePcs /\ pub_pc'[c] \notin EnsurePcs) =>
                \/ pub_pc'[c] = "declare"
                \/ /\ pub_pc'[c] = "idle"
                   /\ pub_out'[c] = "raised_ensure"
                   /\ pub_attempt[c] = 2
                   /\ ~pub_sent'[c]
          /\ (pub_attempt[c] = 1 /\ pub_attempt'[c] = 2) => pub_pc'[c] \in EnsurePcs
          /\ (pub_attempt[c] = 2 /\ pub_pc[c] = "ensure_open" /\ pub_session = "open"
                /\ pub_pc'[c] # pub_pc[c]) => pub_pc'[c] = "declare"
          /\ pub_out'[c] = "ok" => pub_sent'[c]
      ]_vars

\* C3 witness: the cached session was stale, the first attempt failed at
\* the open-check, the second one connected afresh and the call succeeded.
C3_Witness ==
    /\ pub_out["api"] = "ok"
    /\ pub_sent["api"]
    /\ pub_attempt["api"] = 2
    /\ pub_fail1["api"] = "ensure_open"

\* C4 as stated: the publisher has at most one open connection at any time.
C4_AtMostOneLive ==
    LiveConnections <= 1

\* C10: a record whose publish failed is kept over the sleep and is the
\* record of the next publish, with the queue untouched; records are
\* published in the order they were enqueued, without gaps; and once the
\* broker is stable every enqueued record is eventually published.
C10_RetainedInOrder ==
    /\ [][ /\ (log_pc = "publish" /\ log_pc' = "sleep") =>
                (log_record # 0 /\ log_record' = log_record /\ log_queue' = log_queue)
           /\ (log_pc = "sleep" /\ log_pc' # "sleep") =>
                /\ log_pc' = "publish"
                /\ log_record' = log_record
                /\ log_queue' = log_queue
           /\ log_published' # log_published =>
                log_published' = Append(log_published, Len(log_published) + 1)
         ]_vars
    /\ <>stable =>
          \A r \in 1..MaxRecords :
             [](r <= log_emitted => <>(Len(log_published) >= r))

\* C10 witness: the second record was published on a retry, after its first
\* publish had failed with the third record already waiting in the queue.
C10_Witness ==
    /\ log_published = <<1, 2>>
    /\ log_retried
    /\ log_record = 0
    /\ log_queue = <<3>>

\* C11: emit never raises; it enqueues the record at the back when the queue
\* exists and is not full, and otherwise (no queue before startup or after
\* shutdown, or a full queue) drops the record and leaves the queue and
\* everything else as they were.
C11_EmitNeverRaises ==
    [][ /\ ~emit_raised'
        /\ log_emitted' # log_emitted =>
              /\ log_started /\ ~full(log_queue)
              /\ log_queue' = Append(log_queue, log_emitted')
              /\ log_dropped' = log_dropped
        /\ log_dropped' # log_dropped =>
              /\ ~log_started \/ full(log_queue)
              /\ UNCHANGED <<logRunVars, log_emitted, logCancelVars, pubVars>>
      ]_vars

\* C11 witness: one record was enqueued and published, and two records were
\* dropped for lack of a queue, the handler being shut down at the end.
C11_Witness ==
    /\ log_pc = "done"
    /\ ~log_started
    /\ log_dropped = 2
    /\ log_published = <<1>>

\* C12 as stated: a capacity bounds the number of buffered records, so that
\* the queue never holds every one of MaxRecords records emitted while none
\* could be published.
C12_QueueBounded ==
    Len(log_queue) < MaxRecords

\* C13 as stated: once the cancellation has been thrown into the _run task,
\* the task is done: it is not in a publish call, at the queue or asleep.
C13_CancelEndsRun ==
    log_cancel_seen => log_pc = "done"

(***************************************************************************)
(* Ordering, task creation and teardown of the listener                    *)
(***************************************************************************)

\* C14 as stated: subscriptions become active in the order in which
\* subscribe() accepted them (their ids), whatever fails in between.
C14_ActiveInAcceptOrder ==
    \A i, j \in 1..Len(subscriptions) :
        i < j => subscriptions[i] < subscriptions[j]

\* C15: the active list only grows at its end, so its members keep their
\* relative order; the replay of a session declares its members from the
\* first one on, in list order, and is complete when the drain loop starts.
C15_ReplayInActiveOrder ==
    [][ /\ Len(subscriptions') >= Len(subscriptions)
        /\ SubSeq(subscriptions', 1, Len(subscriptions)) = subscriptions
        /\ \A i \in 1..Len(declared') :
              declared'[i][2] = "replay" =>
                 /\ i <= Len(subscriptions')
                 /\ declared'[i][1] = subscriptions'[i]
        /\ (pc = "replay" /\ pc' = "ensure_open") =>
              Len(declared') = Len(subscriptions')
      ]_vars

\* C15 witness: after a failure, two subscriptions that became active in
\* the order 2, 1 have been redeclared in that order on the new session.
C15_Witness ==
    /\ pc = "ensure_open"
    /\ retrying
    /\ subscriptions = <<2, 1>>
    /\ declared = << <<2, "replay">>, <<1, "replay">> >>

\* C17: a listener task is created only in a step that leaves the listener
\* started, finds no task running, and leaves a subscription pending or
\* active; at most one listener task is alive at any time.
C17_AtMostOneTask ==
    /\ [][ live_tasks' > live_tasks =>
              /\ started'
              /\ task = "None"
              /\ live_tasks = 0
              /\ subscriptions # <<>> \/ pending' # <<>>
         ]_vars
    /\ [](live_tasks <= 1)

\* C17 witness: every subscribe() call was made, one of them before startup
\* and one while the task was running, and one task is alive.
C17_Witness ==
    /\ live_tasks = 1
    /\ task = "running"
    /\ created = MaxSubs
    /\ subscriptions # <<>>
    /\ pending # <<>>
    /\ pc = "get"

\* C18 as stated: when the open-check or the declaration of a dequeued
\* subscription fails, the subscription goes back to the queue, is not made
\* active, and the session is closed before the backoff sleep.
C18_ClosedThenBackoff ==
    [][ /\ (pc \in HoldingPcs /\ pc' = "sleep") =>
              /\ pending' = Append(pending, subscription)
              /\ subscriptions' = subscriptions
        /\ (pc \in HoldingPcs /\ pc' = "sleep") => protocol' # "open"
      ]_vars

\* C18 amended: when the open-check or the declaration of a dequeued
\* subscription fails, the subscription goes to the back of the queue and
\* is not made active; the loop sleeps the backoff with the session as it
\* was, closes it after the sleep, and then connects again.
C18_BackoffThenClosed ==
    [][ /\ (pc \in HoldingPcs /\ pc' \notin HoldingPcs
              /\ cancel_seen' = cancel_seen /\ Len(declared') = Len(declared)) =>
              /\ pc' = "sleep"
              /\ pending' = Append(pending, subscription)
              /\ subscriptions' = subscriptions
              /\ subscription' = 0
              /\ UNCHANGED <<protocol, transport>>
        /\ (pc = "sleep" /\ pc' # "sleep" /\ cancel_seen' = cancel_seen) =>
              /\ pc' = "close"
              /\ UNCHANGED <<protocol, transport, pending, subscriptions>>
        /\ (pc = "close" /\ pc' = "connect" /\ cancel_seen' = cancel_seen) =>
              /\ protocol' # "open"
              /\ transport' # "open"
      ]_vars

\* C18 witness: subscription 1 was put back behind subscription 2 after a
\* failure and has been declared and made active on a later session.
C18_Witness ==
    /\ subscriptions = <<2, 1>>
    /\ Len(declared) = 2
    /\ declared[1] = <<2, "replay">>
    /\ declared[2] = <<1, "drain">>

\* C19: a failed redeclaration during the replay leads to the backoff with
\* the active list, the queue and the held subscription unchanged; until the
\* next connect nothing is dequeued or made active, the session is closed,
\* and the drain loop is only entered after a complete replay.
C19_ReplayFailureAbandons ==
    [][ /\ (pc = "replay" /\ pc' # "replay" /\ cancel_seen' = cancel_seen) =>
              \/ /\ pc' = "ensure_open"
                 /\ Len(declared') = Len(subscriptions')
              \/ /\ pc' = "sleep"
                 /\ UNCHANGED <<subscriptions, pending, pending_pre_async,
                                subscription, declared>>
        /\ pc \in {"sleep", "close"} =>
              /\ subscriptions' = subscriptions
              /\ subscription' = subscription
              /\ Len(pending') >= Len(pending)
              /\ SubSeq(pending', 1, Len(pending)) = pending
        /\ (pc = "close" /\ after = "continue" /\ pc' # "close"
              /\ cancel_seen' = cancel_seen) =>
              /\ pc' = "connect"
              /\ protocol' # "open"
      ]_vars

\* C19 witness: the replay of two active subscriptions failed after the
\* first one, the session was closed and the loop waits to connect again,
\* with a subscription still pending.
C19_Witness ==
    /\ pc = "connect"
    /\ retrying
    /\ protocol = "closed"
    /\ Len(subscriptions) = 2
    /\ Len(declared) = 1
    /\ pending # <<>>

\* C20 as stated: whenever the loop is about to connect or has ended, the
\* transport of the session it left is closed, and no open transport was
\* ever replaced by a new one.
C20_TransportClosed ==
    /\ ~leaked
    /\ pc \in {"connect", "done"} => transport # "open"

\* C16 as stated: while the publish call of one caller is suspended in its
\* ensure, declare or send step, no step connects, replaces or closes the
\* session (a connection lost at the broker aside), and no other caller's
\* message is sent on it.
C16_SessionNotShared ==
    [][ \A c \in Callers :
          (pub_pc[c] # "idle" /\ pub_pc'[c] = pub_pc[c]
             /\ pub_attempt'[c] = pub_attempt[c]) =>
             /\ pub_session' \in {pub_session, "lost"}
             /\ pub_channel' = pub_channel
             /\ pub_orphans' = pub_orphans
             /\ \A d \in Callers \ {c} : pub_sent'[d] => pub_sent[d]
      ]_vars

(***************************************************************************)
(* Open-check, warnings, stop and declarations of the listener             *)
(***************************************************************************)

\* C21 as stated: after the open-check has timed out on a session, the loop
\* does not wait on the pending queue, nor handle a dequeued subscription,
\* on that session.
C21_TimeoutAbandonsSession ==
    check_timed_out => pc \notin ({"get"} \cup HoldingPcs)

\* C22: a pending-wait that ends on the empty queue is followed by the
\* open-check; and unless the listener is shut down, a session that is
\* closed while the loop is at the open-check or waits on the queue always
\* leads to a new connection attempt.
C22_DeadSessionDetected ==
    /\ [][ (pc = "get" /\ pc' # "get" /\ pending = <<>>
              /\ cancel_seen' = cancel_seen) => pc' = "ensure_open" ]_vars
    /\ []~shutting =>
          ((task = "running" /\ pc \in {"get", "ensure_open"} /\ protocol = "closed")
              ~> (pc = "connect"))

\* C22 witness: every subscription is active and was declared on the
\* session, nothing is pending or held, and the loop is in the backoff
\* after it found the session closed.
C22_Witness ==
    /\ pc = "sleep"
    /\ ~cancel_seen
    /\ protocol = "closed"
    /\ pending = <<>>
    /\ subscription = 0
    /\ created = MaxSubs
    /\ Len(subscriptions) = MaxSubs
    /\ Len(declared) = MaxSubs
    /\ declared[MaxSubs][2] = "drain"

\* C23: every failure leaves exactly one warning logged since an open-check
\* last succeeded (or since the task started): the first failure logs it,
\* the following ones log nothing.
C23_WarnOncePerOutage ==
    /\ [][ (pc \in TryPcs /\ pc' = "sleep") => outage_warnings' = 1 ]_vars
    /\ [](outage_warnings <= 1)

\* C23 witness: after a first session was lost, the replay on the next one
\* failed at the second subscription, with one warning logged.
C23_Witness ==
    /\ pc = "sleep"
    /\ ~cancel_seen
    /\ outage_warnings = 1
    /\ Len(subscriptions) = 2
    /\ Len(declared) = 1
    /\ declared[1][2] = "replay"

\* C24 as stated: once the task has ended by the cancellation of shutdown,
\* no step starts a task again.
C24_StaysStopped ==
    [][ (pc = "done" /\ cancel_seen) => (pc' = "done" /\ task' = "None") ]_vars

\* C25: no subscription is declared twice on the channel of a session,
\* neither by the replay and the drain together nor twice by one of them.
C25_DeclaredOncePerSession ==
    \A i, j \in 1..Len(declared) :
        i # j => declared[i][1] # declared[j][1]

\* C25 witness: on one session two active subscriptions were redeclared by
\* the replay and a third one was declared from the queue.
C25_Witness ==
    /\ Len(declared) = 3
    /\ declared[1][2] = "replay"
    /\ declared[2][2] = "replay"
    /\ declared[3][2] = "drain"
    /\ Len(subscriptions) = 3

====
